---- MODULE Spec2Model ----
(***************************************************************************)
(* Metaquest: the turn-based combat engine (game::base in game.h), the     *)
(* simple rule set built on it (rules::simple::game) and the outer loop    *)
(* flow::generic::run.                                                     *)
(*                                                                         *)
(* A character is a record [hp, mp, xp, equipment]: the stored attributes   *)
(* "HP/Current", "MP/Current", "Experience" and the equipped item list.    *)
(* A party is a record [id, members, inventory].  Sequences are 1-based:   *)
(* the code's parties[0] is parties[1] here.                               *)
(***************************************************************************)
EXTENDS Integers, Sequences, FiniteSets, TLC

VARIABLES
  parties,      \* base::parties
  willExit,     \* base::willExit
  nParties,     \* base attribute["parties"]
  derived,      \* TRUE: rules::simple::game, FALSE: a bare game::base
  pc,           \* position of flow.run: "run", "resolve", "done"
  order,        \* the sequence returned by the last turnOrder() call
  actor,        \* doMenuAction: the character c = nextCharacter(), <<party, member>>
  allowCharacterActions, \* resolve(): the parameter of the same name
  offered,      \* resolve(): keys of the composed actionMap
  retry,        \* resolve(): the retry flag
  chosen,       \* resolve(): s, the label returned by the last interact.query
  descriptor,   \* resolve(c, s): <<c.scope(s), c.filter(s)>> of the last call
  targets,      \* resolve(c, s): the targets it returned, <<>> for nothing
  asked,        \* resolve(c, s): whether it consulted the target chooser
  notified,     \* resolve(): whether the last iteration called interact.action
  phase,        \* run(): the value of game.state() of the current iteration
  handler,      \* run(): the handler dispatched in the current iteration
  nDefeat,      \* number of doDefeat() calls, each logged by run()
  xp,           \* doVictory(): the local xp (reward) of the last call
  fights,       \* number of Fight invocations
  heals,        \* number of Skill/Heal invocations
  made,         \* number of parties generated so far (party identities)
  logbook,      \* terminal::base::logbook, the array of log entries
  document,     \* the document last returned by json() or handed to load()
  frames,       \* query(): the calls in progress, innermost last
  selection,    \* query(): the local selection of the innermost call
  answer,       \* query(): the value returned to the game, <<>> before that
  aliveFlag,    \* terminal::base::alive: "uninitialized", "true" or "false"
  active,       \* terminal::base::active, the list of animators
  built,        \* the members of terminal::base whose constructor has run
  activeMutex,  \* terminal::base::activeMutex: "free" or the thread holding it
  animators,    \* the animator objects: kind, state and number of deletes
  threads       \* position of the game thread and of the refresher thread

vars == <<parties, willExit, nParties, derived, pc, order, actor, allowCharacterActions,
          offered, retry, chosen, descriptor, targets, asked, notified, phase, handler, nDefeat,
          xp, fights, heals, made, logbook, document, frames, selection, answer,
          aliveFlag, active, built, activeMutex, animators, threads>>

----------------------------------------------------------------------------
(* Bounds of the model *)

\* largest party count a bare game::base is constructed with
MaxParties == 3
\* largest number of characters of a match
MaxChars == 3
\* number of times Fight may be chosen
MaxFights == 1
\* largest Experience a generated opponent starts with
MaxGenXP == 5
\* how many tens below zero HP/Current may be driven
Overkill == 0

\* number of times Skill/Heal may be invoked
MaxHeals == 1
\* number of character actions that may be committed
MaxActions == 2
\* number of animators the game thread creates
MaxAnimators == 2

\* the level of every character
Level == 1

getPoints(level) == level * 10 + (level % 2) * 5

\* function attribute "HP/Total"
getHPTotal == getPoints(Level + 1)

\* function attribute "MP/Total"
getMPTotal == getPoints((Level + 1) * 2)

\* outcomes of the damage roll dmg - def that are applied (admg > 0)
Rolls == {10, 20}
\* Experience a generated opponent can start with
GenXP == {0, MaxGenXP}
\* member counts of the parties the factory returns
PartySizes == {1, 2}

None == <<0, 0>>

\* a JSON value that is no array, and a document without fields
null == [type |-> "null"]

----------------------------------------------------------------------------
(* Character and party predicates *)

alive(c) == c.hp > 0

able(c) == alive(c)

defeated(p) == \A mi \in 1..Len(p.members) : ~alive(p.members[mi])

----------------------------------------------------------------------------
(* base::state *)

\* scan with the distance to the last party off by one
RECURSIVE scanOffByOne(_, _)
scanOffByOne(ps, pi) ==
  IF pi > Len(ps) THEN "combat"
  ELSE IF defeated(ps[pi])
       THEN (IF Len(ps) - pi - 1 = 0 THEN "victory" ELSE "defeat")
       ELSE scanOffByOne(ps, pi + 1)

\* scan with the parties visited from the last to the first
RECURSIVE scanDown(_, _)
scanDown(ps, pi) ==
  IF pi < 1 THEN "combat"
  ELSE IF defeated(ps[pi])
       THEN (IF Len(ps) - pi = 0 THEN "victory" ELSE "defeat")
       ELSE scanDown(ps, pi - 1)

scanBackwards(ps, pi) == scanDown(ps, Len(ps))

\* scan that switches on the index of the defeated party
RECURSIVE scanSwitchOnIndex(_, _)
scanSwitchOnIndex(ps, pi) ==
  IF pi > Len(ps) THEN "combat"
  ELSE IF defeated(ps[pi])
       THEN (IF pi - 1 = 0 THEN "victory" ELSE "defeat")
       ELSE scanSwitchOnIndex(ps, pi + 1)

RECURSIVE scan(_, _)
scan(ps, pi) ==
  IF pi > Len(ps) THEN "combat"
  ELSE IF defeated(ps[pi])
       THEN (IF Len(ps) - pi = 0 THEN "victory" ELSE "defeat")
       ELSE scan(ps, pi + 1)

\* state() that looks at the exit flag after the party count
stateMenuFirst(ex, ps) ==
  IF Len(ps) = 1 THEN "menu"
  ELSE IF ex THEN "exit"
  ELSE scan(ps, 1)

state(ex, ps) ==
  IF ex THEN "exit"
  ELSE IF Len(ps) = 1 THEN "menu"
  ELSE scan(ps, 1)

State == state(willExit, parties)

----------------------------------------------------------------------------
(* Party generation *)

\* every generated item is an object of its own: <<party id, member>> is the
\* weapon of that member, <<party id, 0>> an item of the party's inventory
Character(points, weapon) ==
  [hp |-> getHPTotal, mp |-> getMPTotal, xp |-> points, equipment |-> <<weapon>>]

\* the parties the factory can return; each carries one item in its inventory
generate(id, points) ==
  { [id |-> id,
     members |-> [mi \in 1..n |-> Character(x[mi], <<id, mi>>)],
     inventory |-> <<(<<id, 0>>)>>] :
      n \in PartySizes, x \in [1..MaxChars -> points] }

\* generateParties with the loop condition size() <= count
RECURSIVE generatePartiesOneMore(_, _, _, _)
generatePartiesOneMore(ps, n, id, points) ==
  IF Len(ps) <= n
  THEN UNION { generatePartiesOneMore(Append(ps, p), n, id + 1, points)
               : p \in generate(id + 1, points) }
  ELSE {ps}

\* generateParties that brings the party count to the configured one
RECURSIVE generatePartiesResize(_, _, _, _)
generatePartiesResize(ps, n, id, points) ==
  IF Len(ps) < n
  THEN UNION { generatePartiesResize(Append(ps, p), n, id + 1, points)
               : p \in generate(id + 1, points) }
  ELSE {SubSeq(ps, 1, n)}

\* base::generateParties: append parties until the configured count is reached
RECURSIVE generateParties(_, _, _, _)
generateParties(ps, n, id, points) ==
  IF Len(ps) < n
  THEN UNION { generateParties(Append(ps, p), n, id + 1, points)
               : p \in generate(id + 1, points) }
  ELSE {ps}

----------------------------------------------------------------------------
(* Characters of the match *)

Char(ps, c) == ps[c[1]].members[c[2]]

RECURSIVE membersOf(_, _, _)
membersOf(ps, pi, mi) ==
  IF mi > Len(ps[pi].members) THEN <<>>
  ELSE <<(<<pi, mi>>)>> \o membersOf(ps, pi, mi + 1)

\* every character of every party, in party order then member order
RECURSIVE everyone(_, _)
everyone(ps, pi) ==
  IF pi > Len(ps) THEN <<>>
  ELSE membersOf(ps, pi, 1) \o everyone(ps, pi + 1)

\* every character of every party but p
RECURSIVE others(_, _, _)
others(ps, p, pi) ==
  IF pi > Len(ps) THEN <<>>
  ELSE (IF pi # p THEN membersOf(ps, pi, 1) ELSE <<>>) \o others(ps, p, pi + 1)

partyOf(c) == c[1]

useAI(c) == partyOf(c) > 1

Range(q) == {q[i] : i \in 1..Len(q)}

\* base::turnOrder before the shuffle: the able characters in container order
filteredCandidates(ps) == SelectSeq(everyone(ps, 1), LAMBDA c : able(Char(ps, c)))

\* q without its i-th element
without(q, i) == SubSeq(q, 1, i - 1) \o SubSeq(q, i + 1, Len(q))

\* std::random_shuffle: every arrangement of q
RECURSIVE shuffle(_)
shuffle(q) ==
  IF q = <<>> THEN {<<>>}
  ELSE UNION { {<<q[i]>> \o r : r \in shuffle(without(q, i))} : i \in 1..Len(q) }

\* turnOrder without the copy_if
turnOrderUnfiltered(ps) == shuffle(everyone(ps, 1))

\* base::turnOrder: the sequences it can return
turnOrder(ps) == shuffle(filteredCandidates(ps))

\* base::nextCharacter: *(turnOrder()[0]); element 0 of an empty vector is
\* undefined behaviour, any character or none may come out of it
nextCharacter(ps) ==
  IF filteredCandidates(ps) = <<>> THEN Range(everyone(ps, 1)) \cup {None}
  ELSE Range(filteredCandidates(ps))

----------------------------------------------------------------------------
(* Bound actions of rules::simple::character *)

visibleActions == <<"Attack", "Skill/Heal", "Pass">>

scope(a) == CASE a = "Attack" -> "enemy"
              [] a = "Skill/Heal" -> "ally"
              [] a = "Pass" -> "self"

\* every action bound with the filter onlyUnhealthy
filterUnhealthy(a) == "onlyUnhealthy"

filter(a) == CASE a = "Attack" -> "onlyUndefeated"
               [] a = "Skill/Heal" -> "onlyUnhealthy"
               [] a = "Pass" -> "none"

cost(a) == IF a = "Skill/Heal" THEN 2 ELSE 0

----------------------------------------------------------------------------
(* base::resolve(C&, const std::string&): target resolution *)

\* candidates whose enemy scopes do not skip the actor's party
candidatesEnemyAll(ps, c, sc) ==
  CASE sc = "self" -> <<c>>
    [] sc \in {"ally", "party"} -> membersOf(ps, partyOf(c), 1)
    [] sc \in {"enemy", "enemies", "everyone"} -> everyone(ps, 1)

candidates(ps, c, sc) ==
  CASE sc = "self" -> <<c>>
    [] sc \in {"ally", "party"} -> membersOf(ps, partyOf(c), 1)
    [] sc \in {"enemy", "enemies"} -> others(ps, partyOf(c), 1)
    [] sc = "everyone" -> everyone(ps, 1)

\* passes whose onlyUndefeated looks at the character alone
passesIndividually(ps, t, f) ==
  CASE f = "none" -> TRUE
    [] f = "onlyHealthy" -> Char(ps, t).hp = getHPTotal
    [] f = "onlyAlive" -> alive(Char(ps, t))
    [] f = "onlyUnhealthy" -> alive(Char(ps, t)) /\ Char(ps, t).hp < getHPTotal
    [] f = "onlyDead" -> ~alive(Char(ps, t))
    [] f = "onlyUndefeated" -> alive(Char(ps, t))

passes(ps, t, f) ==
  CASE f = "none" -> TRUE
    [] f = "onlyHealthy" -> Char(ps, t).hp = getHPTotal
    [] f = "onlyAlive" -> alive(Char(ps, t))
    [] f = "onlyUnhealthy" -> alive(Char(ps, t)) /\ Char(ps, t).hp < getHPTotal
    [] f = "onlyDead" -> ~alive(Char(ps, t))
    [] f = "onlyUndefeated" -> ~defeated(ps[partyOf(t)])

\* filtered without the filter switch
filteredNone(ps, c, sc, f) == candidates(ps, c, sc)

filtered(ps, c, sc, f) == SelectSeq(candidates(ps, c, sc), LAMBDA t : passes(ps, t, f))

\* interact.query(game, c, candidates, 8): a single selection or none (<<>>)
chooser(c, cs) ==
  IF ~useAI(c) /\ Len(cs) = 1 THEN {cs}
  ELSE {<<cs[i]>> : i \in 1..Len(cs)} \cup {<<>>}

\* resolveWith that returns the whole filtered set for every scope
resolveWithWhole(ps, c, sc, f) ==
  LET fc == filtered(ps, c, sc, f)
  IN IF Len(fc) = 0 THEN {<<>>} ELSE {fc}

\* the results of resolve(c, s) for an action of scope sc and filter f:
\* <<>> stands for "nothing"
resolveWith(ps, c, sc, f) ==
  LET fc == filtered(ps, c, sc, f)
  IN IF Len(fc) = 0 THEN {<<>>}
     ELSE IF sc \in {"self", "party", "enemies", "everyone"} THEN {fc}
     ELSE chooser(c, fc)

\* whether resolve(c, s) reaches interact.query(game, c, filteredCandidates, 8)
consults(ps, c, sc, f) ==
  /\ Len(filtered(ps, c, sc, f)) # 0
  /\ sc \in {"ally", "enemy"}

resolveTargets(ps, c, a) == resolveWith(ps, c, scope(a), filter(a))

----------------------------------------------------------------------------
(* Effects of the bound actions and character::operator() *)

SetChar(ps, c, ch) == [ps EXCEPT ![c[1]].members[c[2]] = ch]

\* object::add(key, delta)
add(ch, key, delta) ==
  CASE key = "HP/Current" -> [ch EXCEPT !.hp = @ + delta]
    [] key = "MP/Current" -> [ch EXCEPT !.mp = @ + delta]
    [] key = "Experience" -> [ch EXCEPT !.xp = @ + delta]

Min(a, b) == IF a < b THEN a ELSE b
Max(a, b) == IF a > b THEN a ELSE b

\* object::add(key, capKey, delta) for "HP/Current" capped by "HP/Total"
addCapped(ch, delta) == [ch EXCEPT !.hp = Max(0, Min(@ + delta, getHPTotal))]

\* attack: one roll per target; admg = 0 stands for a miss (admg <= 0)
RECURSIVE attack(_, _, _)
attack(ps, src, ts) ==
  IF ts = <<>> THEN {ps}
  ELSE LET t == Head(ts)
       IN UNION { attack(IF admg > 0 THEN SetChar(ps, t, add(Char(ps, t), "HP/Current", 0 - admg))
                         ELSE ps, src, Tail(ts))
                  : admg \in {r \in Rolls \cup {0} : Char(ps, t).hp - r >= 0 - 10 * Overkill} }

\* heal that adds the amount with the uncapped add(key, delta)
RECURSIVE healUncapped(_, _, _)
healUncapped(ps, src, ts) ==
  IF ts = <<>> THEN {ps}
  ELSE LET t == Head(ts)
       IN IF Char(ps, t).mp < 2 THEN healUncapped(ps, src, Tail(ts))
          ELSE UNION { healUncapped(SetChar(ps, t, add(add(Char(ps, t), "MP/Current", 0 - 2),
                                                       "HP/Current", amt)),
                                    src, Tail(ts))
                       : amt \in Rolls }

\* heal: the target pays 2 MP and is healed up to its HP/Total
RECURSIVE heal(_, _, _)
heal(ps, src, ts) ==
  IF ts = <<>> THEN {ps}
  ELSE LET t == Head(ts)
       IN IF Char(ps, t).mp < 2 THEN heal(ps, src, Tail(ts))
          ELSE UNION { heal(SetChar(ps, t, addCapped(add(Char(ps, t), "MP/Current", 0 - 2), amt)),
                            src, Tail(ts))
                       : amt \in Rolls }

pass(ps, src, ts) == {ps}

effect(a, ps, src, ts) ==
  CASE a = "Attack" -> attack(ps, src, ts)
    [] a = "Skill/Heal" -> heal(ps, src, ts)
    [] a = "Pass" -> pass(ps, src, ts)

\* character::operator()(name, targets): check the costs, deduct them, run the effect
invoke(ps, c, a, ts) ==
  IF Char(ps, c).mp < cost(a) THEN {ps}
  ELSE effect(a, SetChar(ps, c, add(Char(ps, c), "MP/Current", 0 - cost(a))), c, ts)

----------------------------------------------------------------------------
(* doVictory *)

RECURSIVE equipmentOf(_, _)
equipmentOf(ms, mi) ==
  IF mi > Len(ms) THEN <<>> ELSE ms[mi].equipment \o equipmentOf(ms, mi + 1)

RECURSIVE experienceOf(_, _)
experienceOf(ms, mi) ==
  IF mi > Len(ms) THEN 0 ELSE ms[mi].xp + experienceOf(ms, mi + 1)

\* the reward without "if (xp == 0) xp = 1"
rewardNoMinimum(ps) == experienceOf(ps[2].members, 1) \div Len(ps[1].members)

\* rules::simple::game::doVictory, the local xp
reward(ps) ==
  LET q == experienceOf(ps[2].members, 1) \div Len(ps[1].members)
  IN IF q = 0 THEN 1 ELSE q

\* an erase of the first party
eraseFirst(ps) == Tail(ps)

\* base::doVictory: parties.erase(parties.begin() + 1)
eraseSecond(ps) == SubSeq(ps, 1, 1) \o SubSeq(ps, 3, Len(ps))

\* spoils that reward only the members that are alive
spoilsSurvivors(ps) ==
  IF Len(ps) > 1
  THEN [ps EXCEPT ![1] =
         [id |-> @.id,
          inventory |-> @.inventory \o ps[2].inventory \o equipmentOf(ps[2].members, 1),
          members |-> [mi \in 1..Len(@.members) |->
                         IF alive(@.members[mi])
                         THEN add(@.members[mi], "Experience", reward(ps))
                         ELSE @.members[mi]]]]
  ELSE ps

\* spoils that insert the equipment before the defeated party's inventory
spoilsEquipmentFirst(ps) ==
  IF Len(ps) > 1
  THEN [ps EXCEPT ![1] =
         [id |-> @.id,
          inventory |-> @.inventory \o equipmentOf(ps[2].members, 1) \o ps[2].inventory,
          members |-> [mi \in 1..Len(@.members) |-> add(@.members[mi], "Experience", reward(ps))]]]
  ELSE ps

\* rules::simple::game::doVictory up to the call of parent::doVictory
spoils(ps) ==
  IF Len(ps) > 1
  THEN [ps EXCEPT ![1] =
         [id |-> @.id,
          inventory |-> @.inventory \o ps[2].inventory \o equipmentOf(ps[2].members, 1),
          members |-> [mi \in 1..Len(@.members) |-> add(@.members[mi], "Experience", reward(ps))]]]
  ELSE ps

\* doVictory that leaves the defeated party in place
doVictoryKeeps(d, ps) == IF d THEN spoils(ps) ELSE ps

doVictory(d, ps) == eraseSecond(IF d THEN spoils(ps) ELSE ps)

----------------------------------------------------------------------------
(* Menu composition: base::actions and rules::simple::game::actions *)

\* actions that bind Inspect for every actor
actionsInspectForAll(d, ex, ps, c) ==
  (IF ~useAI(c) THEN {"Quit/Yes", "Quit/No"} ELSE {})
  \cup (IF d /\ state(ex, ps) = "menu" THEN {"Fight"} ELSE {})
  \cup (IF d THEN {"Inspect"} ELSE {})

\* actions that offers Quit to every character
actionsQuitForAll(d, ex, ps, c) ==
  {"Quit/Yes", "Quit/No"}
  \cup (IF d /\ state(ex, ps) = "menu" THEN {"Fight"} ELSE {})
  \cup (IF d /\ ~useAI(c) THEN {"Inspect"} ELSE {})

actions(d, ex, ps, c) ==
  (IF ~useAI(c) THEN {"Quit/Yes", "Quit/No"} ELSE {})
  \cup (IF d /\ state(ex, ps) = "menu" THEN {"Fight"} ELSE {})
  \cup (IF d /\ ~useAI(c) THEN {"Inspect"} ELSE {})

\* resolve(): the labels handed to interact.query (std::map iterates in key order)
labels(allow, keys) ==
  (IF allow THEN visibleActions ELSE <<>>)
  \o SelectSeq(<<"Fight", "Inspect", "Quit/No", "Quit/Yes">>, LAMBDA k : k \in keys)

Labels == labels(allowCharacterActions, offered)

\* the state of the animators and of the two threads of terminal::base
animation == <<aliveFlag, active, built, activeMutex, animators, threads>>

\* the members of terminal::base the refresher thread uses
Members == {"alive", "active", "activeMutex"}

\* an animator that was not created yet
unallocated == [kind |-> "none", state |-> "unallocated", deletes |-> 0, line |-> 0]

\* a constructed terminal::base without animators, both threads between
\* two operations
settled ==
  /\ aliveFlag = "true"
  /\ active = <<>>
  /\ built = Members
  /\ activeMutex = "free"
  /\ animators = [i \in 1..MaxAnimators |-> unallocated]
  /\ threads = [game |-> "idle", refresher |-> <<"run", "loop">>, anim |-> 0, sel |-> 0]

----------------------------------------------------------------------------
(* Construction *)

Init ==
  /\ derived \in BOOLEAN
  /\ nParties \in (IF derived THEN {1} ELSE 1..MaxParties)
  /\ parties \in { ps \in generateParties(<<>>, nParties, 0, {0}) :
                     Len(everyone(ps, 1)) <= MaxChars - (IF derived THEN 1 ELSE 0) }
  /\ made = nParties
  /\ willExit = FALSE
  /\ pc = "run"
  /\ order = <<>>
  /\ actor = None
  /\ allowCharacterActions = FALSE
  /\ offered = {}
  /\ retry = FALSE
  /\ chosen = ""
  /\ descriptor = <<>>
  /\ targets = <<>>
  /\ asked = FALSE
  /\ notified = FALSE
  /\ phase = "none"
  /\ handler = "none"
  /\ nDefeat = 0
  /\ xp = 0
  /\ fights = 0
  /\ heals = 0
  /\ logbook = <<>>
  /\ document = null
  /\ frames = <<>>
  /\ selection = 0
  /\ answer = <<>>
  /\ settled

----------------------------------------------------------------------------
(* flow::generic::run: one iteration per step, the resolution loop apart *)

game == <<parties, willExit, nParties, made, fights, heals, xp, order>>
locals == <<actor, allowCharacterActions, offered, retry, chosen, descriptor, targets, asked, notified>>
surface == <<document, frames, selection, answer, animation>>

\* a plain string as a log entry
string(text) == [string |-> text]

\* log(game, description, source, targets): the structured record r
record(description, source, ts) == [action |-> description, source |-> source, target |-> ts]

\* number of structured records in a log
RECURSIVE records(_)
records(l) ==
  IF l = <<>> THEN 0
  ELSE (IF "action" \in DOMAIN Head(l) THEN 1 ELSE 0) + records(Tail(l))

\* log(std::string): logbook.push
log(l, text) == Append(l, string(text))

\* base::doMenuAction up to the first query of resolve()
doMenuAction(allow) ==
  /\ UNCHANGED surface
  /\ \E c \in nextCharacter(parties) :
       /\ actor' = c
       /\ offered' = actions(derived, willExit, parties, c)
  /\ allowCharacterActions' = allow
  /\ retry' = FALSE
  /\ chosen' = ""
  /\ descriptor' = <<>>
  /\ targets' = <<>>
  /\ asked' = FALSE
  /\ notified' = FALSE
  /\ pc' = "resolve"
  /\ UNCHANGED <<game, derived, nDefeat, logbook>>

\* a menu iteration that allows character actions
RunMenuAllowing ==
  /\ pc = "run"
  /\ State = "menu"
  /\ phase' = "menu"
  /\ handler' = "doMenu"
  /\ doMenuAction(TRUE)

RunMenu ==
  /\ pc = "run"
  /\ State = "menu"
  /\ phase' = "menu"
  /\ handler' = "doMenu"
  /\ doMenuAction(FALSE)

RunCombat ==
  /\ pc = "run"
  /\ State = "combat"
  /\ phase' = "combat"
  /\ handler' = "doCombat"
  /\ doMenuAction(TRUE)

RunVictory ==
  /\ UNCHANGED surface
  /\ pc = "run"
  /\ State = "victory"
  /\ phase' = "victory"
  /\ handler' = "doVictory"
  /\ parties' = doVictory(derived, parties)
  /\ xp' = IF derived /\ Len(parties) > 1 THEN reward(parties) ELSE xp
  /\ logbook' = log(logbook, "doVictory")
  /\ UNCHANGED <<willExit, nParties, made, fights, heals, order, derived, pc, locals, nDefeat>>

\* the defeat case without its return
RunDefeatNoReturn ==
  /\ UNCHANGED surface
  /\ pc = "run"
  /\ State = "defeat"
  /\ phase' = "defeat"
  /\ handler' = "doDefeat"
  /\ nDefeat' = nDefeat + 1
  /\ pc' = "run"
  /\ logbook' = log(logbook, "doDefeat")
  /\ UNCHANGED <<game, derived, locals>>

RunDefeat ==
  /\ UNCHANGED surface
  /\ pc = "run"
  /\ State = "defeat"
  /\ phase' = "defeat"
  /\ handler' = "doDefeat"
  /\ nDefeat' = nDefeat + 1
  /\ pc' = "done"
  /\ logbook' = log(logbook, "doDefeat")
  /\ UNCHANGED <<game, derived, locals>>

RunExit ==
  /\ UNCHANGED surface
  /\ pc = "run"
  /\ State = "exit"
  /\ phase' = "exit"
  /\ handler' = "none"
  /\ pc' = "done"
  /\ UNCHANGED <<game, derived, locals, nDefeat, logbook>>

----------------------------------------------------------------------------
(* base::resolve(character&, actionMap&, bool): one loop iteration per step *)

\* s = interact.query(...) returned a label that is not a character action
label(s) ==
  /\ chosen' = s
  /\ descriptor' = <<>>
  /\ targets' = <<>>
  /\ asked' = FALSE
  /\ notified' = FALSE

\* a resolution that notifies the interaction surface whatever the targets
resolvedNotified(s, ts) ==
  /\ chosen' = s
  /\ descriptor' = <<scope(s), filter(s)>>
  /\ targets' = ts
  /\ asked' = consults(parties, actor, scope(s), filter(s))
  /\ notified' = TRUE

\* s is a character action: targets = resolve(target, s) returned ts, and
\* interact.action is called when there are targets
resolved(s, ts) ==
  /\ chosen' = s
  /\ descriptor' = <<scope(s), filter(s)>>
  /\ targets' = ts
  /\ asked' = consults(parties, actor, scope(s), filter(s))
  /\ notified' = (ts # <<>>)

\* a retry that draws the actor and composes the menu anew
againRedraw ==
  /\ UNCHANGED surface
  /\ retry' = TRUE
  /\ \E c \in nextCharacter(parties) :
       /\ actor' = c
       /\ offered' = actions(derived, willExit, parties, c)
  /\ UNCHANGED <<game, derived, pc, allowCharacterActions, phase, handler, nDefeat, logbook>>

\* the iteration ends in a retry: only locals of the iteration change
again ==
  /\ UNCHANGED surface
  /\ retry' = TRUE
  /\ UNCHANGED <<game, derived, pc, actor, allowCharacterActions, offered,
                 phase, handler, nDefeat, logbook>>

\* a return that logs the result before the record of the action
returnResultFirst ==
  /\ UNCHANGED surface
  /\ retry' = FALSE
  /\ pc' = "run"
  /\ logbook' = IF notified'
                THEN Append(log(logbook, handler), record(chosen', actor, targets'))
                ELSE log(logbook, handler)
  /\ UNCHANGED <<derived, actor, allowCharacterActions, offered, phase, handler, nDefeat>>

\* resolve() returns its result, which run() logs
return ==
  /\ UNCHANGED surface
  /\ retry' = FALSE
  /\ pc' = "run"
  /\ logbook' = log(IF notified' THEN Append(logbook, record(chosen', actor, targets')) ELSE logbook,
                    handler)
  /\ UNCHANGED <<derived, actor, allowCharacterActions, offered, phase, handler, nDefeat>>

ResolveCancel ==
  /\ pc = "resolve"
  /\ label("Cancel")
  /\ again

\* an ignore that leaves retry as the loop reset it
ResolveQuitNoReturns ==
  /\ pc = "resolve"
  /\ "Quit/No" \in offered
  /\ label("Quit/No")
  /\ return
  /\ UNCHANGED game

\* base::ignore
ResolveQuitNo ==
  /\ pc = "resolve"
  /\ "Quit/No" \in offered
  /\ label("Quit/No")
  /\ again

\* base::quit
ResolveQuitYes ==
  /\ pc = "resolve"
  /\ "Quit/Yes" \in offered
  /\ label("Quit/Yes")
  /\ willExit' = TRUE
  /\ return
  /\ UNCHANGED <<parties, nParties, made, fights, heals, xp, order>>

\* base::inspect
ResolveInspect ==
  /\ pc = "resolve"
  /\ "Inspect" \in offered
  /\ label("Inspect")
  /\ again

\* a fight that leaves the player party behind
ResolveFightAfresh ==
  /\ pc = "resolve"
  /\ "Fight" \in offered
  /\ label("Fight")
  /\ fights < MaxFights
  /\ fights' = fights + 1
  /\ nParties' = 2
  /\ parties' \in { ps \in generateParties(<<>>, 2, made, GenXP) :
                      Len(everyone(ps, 1)) <= MaxChars }
  /\ made' = made + 2
  /\ return
  /\ UNCHANGED <<willExit, heals, xp, order>>

\* rules::simple::game::fight
ResolveFight ==
  /\ pc = "resolve"
  /\ "Fight" \in offered
  /\ label("Fight")
  /\ fights < MaxFights
  /\ fights' = fights + 1
  /\ nParties' = 2
  /\ parties' \in { ps \in generateParties(parties, 2, made, GenXP) :
                      Len(everyone(ps, 1)) <= MaxChars }
  /\ made' = made + Len(parties') - Len(parties)
  /\ return
  /\ UNCHANGED <<willExit, heals, xp, order>>

\* no targets, and the resolution returns instead of retrying
ResolveNoTargetsReturns ==
  /\ pc = "resolve"
  /\ allowCharacterActions
  /\ \E a \in Range(visibleActions) :
       /\ <<>> \in resolveTargets(parties, actor, a)
       /\ resolved(a, <<>>)
       /\ return
  /\ UNCHANGED game

\* a character action without eligible targets, or whose target choice is cancelled
ResolveNoTargets ==
  /\ pc = "resolve"
  /\ allowCharacterActions
  /\ \E a \in Range(visibleActions) :
       /\ <<>> \in resolveTargets(parties, actor, a)
       /\ resolved(a, <<>>)
       /\ again

\* a character action committed on its targets
ResolveAction ==
  /\ pc = "resolve"
  /\ allowCharacterActions
  /\ records(logbook) < MaxActions
  /\ \E a \in Range(visibleActions) :
       \E ts \in resolveTargets(parties, actor, a) :
         /\ ts # <<>>
         /\ resolved(a, ts)
         /\ a = "Skill/Heal" => heals < MaxHeals
         /\ heals' = IF a = "Skill/Heal" THEN heals + 1 ELSE heals
         /\ parties' \in invoke(parties, actor, a, ts)
         /\ return
  /\ UNCHANGED <<willExit, nParties, made, fights, xp, order>>

Next ==
  \/ RunMenu
  \/ RunCombat
  \/ RunVictory
  \/ RunDefeat
  \/ RunExit
  \/ ResolveCancel
  \/ ResolveQuitNo
  \/ ResolveQuitYes
  \/ ResolveInspect
  \/ ResolveFight
  \/ ResolveNoTargets
  \/ ResolveAction

Spec == Init /\ [][Next]_vars

----------------------------------------------------------------------------
(* A match set up by hand: two parties whose members' HP/Current and       *)
(* MP/Current are either untouched or set to 0 before run() is entered     *)

setup(ps, h, m) ==
  [pi \in 1..Len(ps) |->
     [ps[pi] EXCEPT !.members =
        [mi \in 1..Len(ps[pi].members) |->
           [ps[pi].members[mi] EXCEPT !.hp = h[<<pi, mi>>], !.mp = m[<<pi, mi>>]]]]]

\* the matches of n parties that can be set up: every HP/Current is one of
\* the values in hps, every MP/Current is one of the values in mps
setups(n, hps, mps) ==
  UNION { { setup(g, h, m) : h \in [Range(everyone(g, 1)) -> hps],
                             m \in [Range(everyone(g, 1)) -> mps] } :
          g \in { ps \in generateParties(<<>>, n, 0, {0}) :
                    Len(everyone(ps, 1)) <= MaxChars } }

InitScenario ==
  /\ derived \in BOOLEAN
  /\ nParties = 2
  /\ parties \in setups(2, {0, getHPTotal}, {0, getMPTotal})
  /\ made = 2
  /\ willExit = FALSE
  /\ pc = "run"
  /\ order = <<>>
  /\ actor = None
  /\ allowCharacterActions = FALSE
  /\ offered = {}
  /\ retry = FALSE
  /\ chosen = ""
  /\ descriptor = <<>>
  /\ targets = <<>>
  /\ asked = FALSE
  /\ notified = FALSE
  /\ phase = "none"
  /\ handler = "none"
  /\ nDefeat = 0
  /\ xp = 0
  /\ fights = 0
  /\ heals = 0
  /\ logbook = <<>>
  /\ document = null
  /\ frames = <<>>
  /\ selection = 0
  /\ answer = <<>>
  /\ settled

\* the match that was set up is played; no further fight is started
NextScenario ==
  \/ RunMenu
  \/ RunCombat
  \/ RunVictory
  \/ RunDefeat
  \/ RunExit
  \/ ResolveCancel
  \/ ResolveQuitNo
  \/ ResolveQuitYes
  \/ ResolveInspect
  \/ ResolveNoTargets
  \/ ResolveAction

SpecScenario == InitScenario /\ [][NextScenario]_vars

\* run() is a sequential loop: once the phase is defeat its next step is taken
FairScenario == SpecScenario /\ WF_vars(RunDefeat)

----------------------------------------------------------------------------
(* turnOrder() and nextCharacter() called on their own, on matches with a   *)
(* character able to act                                                    *)

InitTurnOrder ==
  /\ derived = FALSE
  /\ nParties \in 1..MaxParties
  /\ parties \in { ps \in setups(nParties, {0, getHPTotal}, {getMPTotal}) : filteredCandidates(ps) # <<>> }
  /\ made = nParties
  /\ willExit = FALSE
  /\ pc = "turn"
  /\ order = <<>>
  /\ actor = None
  /\ allowCharacterActions = FALSE
  /\ offered = {}
  /\ retry = FALSE
  /\ chosen = ""
  /\ descriptor = <<>>
  /\ targets = <<>>
  /\ asked = FALSE
  /\ notified = FALSE
  /\ phase = "none"
  /\ handler = "none"
  /\ nDefeat = 0
  /\ xp = 0
  /\ fights = 0
  /\ heals = 0
  /\ logbook = <<>>
  /\ document = null
  /\ frames = <<>>
  /\ selection = 0
  /\ answer = <<>>
  /\ settled

\* c = nextCharacter(), which calls turnOrder()
CallNextCharacter ==
  /\ UNCHANGED surface
  /\ pc = "turn"
  /\ \E o \in turnOrder(parties) :
       /\ order' = o
       /\ actor' \in (IF o = <<>> THEN nextCharacter(parties) ELSE {o[1]})
  /\ pc' = "turned"
  /\ UNCHANGED <<parties, willExit, nParties, derived, allowCharacterActions, offered,
                 retry, chosen, descriptor, targets, asked, notified, phase, handler, nDefeat, xp,
                 fights, heals, made, logbook>>

\* the caller is done with the returned sequence
DropTurnOrder ==
  /\ UNCHANGED surface
  /\ pc = "turned"
  /\ pc' = "turn"
  /\ UNCHANGED <<parties, willExit, nParties, derived, order, actor, allowCharacterActions,
                 offered, retry, chosen, descriptor, targets, asked, notified, phase, handler, nDefeat,
                 xp, fights, heals, made, logbook>>

NextTurnOrder == CallNextCharacter \/ DropTurnOrder

SpecTurnOrder == InitTurnOrder /\ [][NextTurnOrder]_vars

----------------------------------------------------------------------------
(* resolve(c, s) called on its own: any character of a set-up match as c,  *)
(* an action of any scope and filter bound to s                            *)

Scopes == {"self", "ally", "party", "enemy", "enemies", "everyone"}

Filters == {"none", "onlyHealthy", "onlyAlive", "onlyUnhealthy", "onlyDead", "onlyUndefeated"}

InitResolve ==
  /\ derived = FALSE
  /\ nParties \in 1..MaxParties
  /\ parties \in setups(nParties, {0, getHPTotal \div 2, getHPTotal}, {getMPTotal})
  /\ made = nParties
  /\ willExit = FALSE
  /\ pc = "target"
  /\ order = <<>>
  /\ actor = None
  /\ allowCharacterActions = TRUE
  /\ offered = {}
  /\ retry = FALSE
  /\ chosen = ""
  /\ descriptor = <<>>
  /\ targets = <<>>
  /\ asked = FALSE
  /\ notified = FALSE
  /\ phase = "none"
  /\ handler = "none"
  /\ nDefeat = 0
  /\ xp = 0
  /\ fights = 0
  /\ heals = 0
  /\ logbook = <<>>
  /\ document = null
  /\ frames = <<>>
  /\ selection = 0
  /\ answer = <<>>
  /\ settled

\* targets = resolve(c, s), and the test of its result that sets retry
CallResolve ==
  /\ UNCHANGED surface
  /\ pc = "target"
  /\ \E c \in Range(everyone(parties, 1)), sc \in Scopes, f \in Filters :
       /\ actor' = c
       /\ descriptor' = <<sc, f>>
       /\ targets' \in resolveWith(parties, c, sc, f)
       /\ asked' = consults(parties, c, sc, f)
  /\ retry' = (targets' = <<>>)
  /\ pc' = "targeted"
  /\ UNCHANGED <<parties, willExit, nParties, derived, order, allowCharacterActions,
                 offered, chosen, notified, phase, handler, nDefeat, xp, fights, heals, made, logbook>>

\* the caller is done with the returned targets
DropTargets ==
  /\ UNCHANGED surface
  /\ pc = "targeted"
  /\ pc' = "target"
  /\ actor' = None
  /\ descriptor' = <<>>
  /\ targets' = <<>>
  /\ asked' = FALSE
  /\ retry' = FALSE
  /\ UNCHANGED <<parties, willExit, nParties, derived, order, allowCharacterActions,
                 offered, chosen, notified, phase, handler, nDefeat, xp, fights, heals, made, logbook>>

NextResolve == CallResolve \/ DropTargets

SpecResolve == InitResolve /\ [][NextResolve]_vars

----------------------------------------------------------------------------
(* Properties *)

Defeated == {pi \in 1..Len(parties) : defeated(parties[pi])}

\* the first defeated party in party order
FirstDefeated == CHOOSE pi \in Defeated : \A pj \in Defeated : pi <= pj

ids(ps) == [pi \in 1..Len(ps) |-> ps[pi].id]

Player == parties[1]

\* C1: state() is determined by the exit flag, the number of parties and which
\* parties are defeated: exit when the flag is set; else menu with one party;
\* else, for the first defeated party in index order, victory iff it is the last
\* party and defeat otherwise; combat when no party is defeated.
C1_StateIsFunction ==
  State = IF willExit THEN "exit"
          ELSE IF Len(parties) = 1 THEN "menu"
          ELSE IF Defeated = {} THEN "combat"
          ELSE IF FirstDefeated = Len(parties) THEN "victory"
          ELSE "defeat"

\* three parties, the player party alive, the middle party defeated: defeat
C1_Witness ==
  /\ Len(parties) = 3
  /\ ~willExit
  /\ Defeated = {2}
  /\ FirstDefeated = 2
  /\ pc = "done"
  /\ phase = "defeat"

\* C2: an iteration of run() reads state() once and dispatches the one handler
\* of that phase; run() ends exactly on defeat (doDefeat logged once) and on
\* exit (no handler), and goes on after menu, combat and victory.
C2_RunDispatch ==
  /\ [][pc = "run" =>
          /\ phase' = State
          /\ handler' = (CASE State = "menu" -> "doMenu"
                           [] State = "combat" -> "doCombat"
                           [] State = "victory" -> "doVictory"
                           [] State = "defeat" -> "doDefeat"
                           [] State = "exit" -> "none")
          /\ pc' = (CASE State \in {"menu", "combat"} -> "resolve"
                      [] State = "victory" -> "run"
                      [] State \in {"defeat", "exit"} -> "done")
          /\ nDefeat' = (IF State = "defeat" THEN nDefeat + 1 ELSE nDefeat)
          /\ State = "exit" => UNCHANGED <<parties, willExit, nParties>>]_vars
  /\ [][pc # "run" => nDefeat' = nDefeat /\ handler' = handler /\ phase' = phase]_vars
  /\ [](pc = "done" => /\ phase \in {"defeat", "exit"}
                       /\ nDefeat = (IF phase = "defeat" THEN 1 ELSE 0))
  /\ [](pc # "done" => nDefeat = 0)

C2_Witness ==
  /\ pc = "done"
  /\ phase = "defeat"
  /\ handler = "doDefeat"
  /\ nDefeat = 1

\* C3: once Quit/Yes has set the exit flag it stays set, state() is exit
\* whatever the parties are, and run() ends at its next phase query without
\* changing any party or character.
C3_ExitAbsorbing ==
  /\ [][willExit => willExit']_vars
  /\ [](willExit => State = "exit")
  /\ [][willExit => (parties' = parties /\ pc' = "done")]_vars
  /\ [](willExit => pc \in {"run", "done"})

\* quit in the middle of a fight
C3_Witness ==
  /\ willExit
  /\ pc = "done"
  /\ Len(parties) = 2
  /\ phase = "exit"

BothDefeated == ~willExit /\ Len(parties) = 2 /\ Defeated = {1, 2}

\* C4: with two parties both entirely defeated the phase is defeat (party 0 is
\* scanned first): run() calls doDefeat once and returns, doVictory is not
\* run, and the loop ends.
C4_BothDefeated ==
  /\ [](BothDefeated => State = "defeat")
  /\ [][(BothDefeated /\ pc = "run") =>
          /\ handler' = "doDefeat"
          /\ nDefeat' = 1
          /\ pc' = "done"
          /\ parties' = parties
          /\ xp' = xp]_vars
  /\ ((BothDefeated /\ pc = "run") ~> (pc = "done" /\ handler = "doDefeat" /\ nDefeat = 1))

C4_Witness ==
  /\ BothDefeated
  /\ pc = "done"
  /\ handler = "doDefeat"
  /\ nDefeat = 1

\* C5: with at least two parties, victory implies that the player party is not
\* defeated and that some other party is.
C5_VictoryMeansPlayerSurvives ==
  (Len(parties) >= 2 /\ State = "victory") =>
    /\ ~defeated(Player)
    /\ \E pi \in 2..Len(parties) : defeated(parties[pi])

C5_Witness ==
  /\ Len(parties) = 3
  /\ State = "victory"
  /\ pc = "run"

\* C6: on victory doVictory removes the defeated party and leaves every other
\* party in place and in order; with two parties the next phase is menu.
C6_RemovesDefeated ==
  [][(pc = "run" /\ State = "victory") =>
       /\ ids(parties') = ids(without(parties, FirstDefeated))
       /\ Len(parties) = 2 => state(willExit', parties') = "menu"]_vars

Sum(f, n) == LET RECURSIVE upto(_)
                 upto(k) == IF k = 0 THEN 0 ELSE f[k] + upto(k - 1)
             IN upto(n)

Loser == parties[FirstDefeated]

LoserExperience == Sum([mi \in 1..Len(Loser.members) |-> Loser.members[mi].xp],
                       Len(Loser.members))

Quotient == LoserExperience \div Len(Player.members)

Reward == IF Quotient = 0 THEN 1 ELSE Quotient

IsVictory == pc = "run" /\ State = "victory" /\ derived

\* C7: the reward is the sum of the Experience of the defeated party's members
\* divided by the number of members of party 0 (integer division), and 1 when
\* that quotient is 0; one member against one member gains max(1, Experience).
C7_Reward ==
  [][IsVictory =>
       /\ xp' = Reward
       /\ (Len(Player.members) = 1 /\ Len(Loser.members) = 1) =>
            /\ xp' = Max(1, Loser.members[1].xp)
            /\ parties'[1].members[1].xp = Player.members[1].xp + Max(1, Loser.members[1].xp)]_vars

\* a quotient above 1 of a sum over two members divided among two members
C7_Witness ==
  /\ derived
  /\ handler = "doVictory"
  /\ pc = "run"
  /\ Len(Player.members) = 2
  /\ xp = MaxGenXP \div 2
  /\ xp > 1

\* C8 as stated: the reward goes to the members of party 0 that are alive and
\* the Experience of those that are not alive is unchanged.
C8_OnlySurvivors ==
  [][IsVictory =>
       \A mi \in 1..Len(Player.members) :
         parties'[1].members[mi].xp =
           Player.members[mi].xp + (IF alive(Player.members[mi]) THEN Reward ELSE 0)]_vars

\* C8: on victory the reward is added to the Experience of every member of
\* party 0, alive or not, and nothing else of a member changes.
C8_EveryMember ==
  [][IsVictory =>
       /\ Len(parties'[1].members) = Len(Player.members)
       /\ \A mi \in 1..Len(Player.members) :
            parties'[1].members[mi] =
              [Player.members[mi] EXCEPT !.xp = Player.members[mi].xp + Reward]]_vars

\* a member of party 0 that is not alive has been rewarded
C8_Witness ==
  /\ derived
  /\ handler = "doVictory"
  /\ pc = "run"
  /\ \E mi \in 1..Len(Player.members) :
       ~alive(Player.members[mi]) /\ Player.members[mi].xp = xp /\ xp > 0

Concat(f, n) == LET RECURSIVE upto(_)
                    upto(k) == IF k = 0 THEN <<>> ELSE upto(k - 1) \o f[k]
                IN upto(n)

LoserEquipment == Concat([mi \in 1..Len(Loser.members) |-> Loser.members[mi].equipment],
                         Len(Loser.members))

\* C9: after doVictory the inventory of party 0 is its previous inventory, then
\* the defeated party's inventory, then the equipment of each defeated
\* character in member order.
C9_Inventory ==
  [][IsVictory =>
       LET inv == parties'[1].inventory
           old == Len(Player.inventory)
           got == Len(Loser.inventory)
       IN /\ SubSeq(inv, 1, old) = Player.inventory
          /\ SubSeq(inv, old + 1, old + got) = Loser.inventory
          /\ SubSeq(inv, old + got + 1, Len(inv)) = LoserEquipment]_vars

\* an item already held, a looted item and the weapons of two members, in order
C9_Witness ==
  /\ derived
  /\ handler = "doVictory"
  /\ pc = "run"
  /\ Player.inventory = <<(<<1, 0>>), (<<2, 0>>), (<<2, 1>>), (<<2, 2>>)>>

\* C10: when run() calls it, turnOrder() returns every able character exactly
\* once and no other character, and nextCharacter() is the first element of
\* that sequence, an able character.
C10_TurnOrder ==
  pc = "turned" =>
    /\ \A c \in Range(everyone(parties, 1)) :
         Cardinality({i \in 1..Len(order) : order[i] = c})
           = (IF able(Char(parties, c)) THEN 1 ELSE 0)
    /\ Range(order) \subseteq Range(everyone(parties, 1))
    /\ order # <<>>
    /\ actor = order[1]
    /\ able(Char(parties, actor))
    /\ actor \in nextCharacter(parties)
    /\ Range(order) = nextCharacter(parties)

\* a character that is not able is left out, the first of container order is
\* not the one that acts
C10_Witness ==
  /\ pc = "turned"
  /\ Len(order) = 2
  /\ Len(everyone(parties, 1)) = 3
  /\ actor # filteredCandidates(parties)[1]

----------------------------------------------------------------------------
(* Target resolution *)

\* every character of the match
Characters == {c \in (1..Len(parties)) \X (1..MaxChars) : c[2] <= Len(parties[c[1]].members)}

HP(c) == parties[c[1]].members[c[2]].hp

NoDuplicates(q) == \A i, j \in 1..Len(q) : q[i] = q[j] => i = j

\* q lists elements of r in the order r lists them
InOrderOf(q, r) ==
  \A i, j \in 1..Len(q) :
    i < j => \E k, l \in 1..Len(r) : k < l /\ r[k] = q[i] /\ r[l] = q[j]

Candidates == candidates(parties, actor, descriptor[1])

Filtered == filtered(parties, actor, descriptor[1], descriptor[2])

\* C11: the candidates of a target resolution are exactly the actor for scope
\* self, the members of the actor's party for ally and party, the members of
\* all other parties for enemy and enemies, all characters for everyone,
\* whatever the filter and the characters' attributes are
C11_Candidates ==
  pc = "targeted" =>
    /\ NoDuplicates(Candidates)
    /\ descriptor[1] = "self" => Candidates = <<actor>>
    /\ descriptor[1] \in {"ally", "party"} =>
         Range(Candidates) = {c \in Characters : c[1] = actor[1]}
    /\ descriptor[1] \in {"enemy", "enemies"} =>
         Range(Candidates) = {c \in Characters : c[1] # actor[1]}
    /\ descriptor[1] = "everyone" => Range(Candidates) = Characters

C11_Witness ==
  /\ pc = "targeted"
  /\ descriptor[1] = "enemy"
  /\ Len(parties) = 3
  /\ actor[1] = 2
  /\ Candidates = <<<<1, 1>>, <<3, 1>>>>

\* what each filter keeps, in terms of the stored attributes
Keeps(t, f) ==
  CASE f = "none" -> TRUE
    [] f = "onlyHealthy" -> HP(t) = getHPTotal
    [] f = "onlyAlive" -> HP(t) > 0
    [] f = "onlyUnhealthy" -> HP(t) > 0 /\ HP(t) < getHPTotal
    [] f = "onlyDead" -> HP(t) <= 0
    [] f = "onlyUndefeated" -> \E c \in Characters : c[1] = t[1] /\ HP(c) > 0

\* C12: the filtered set holds exactly the candidates the action's filter
\* keeps, once each and in candidate order; onlyUndefeated keeps the
\* characters whose party has a living member
C12_Filtered ==
  pc = "targeted" =>
    /\ Range(Filtered) = {t \in Range(Candidates) : Keeps(t, descriptor[2])}
    /\ NoDuplicates(Filtered)
    /\ InOrderOf(Filtered, Candidates)

\* a dead member of a party with a living member passes onlyUndefeated
C12_Witness ==
  /\ pc = "targeted"
  /\ descriptor = <<"party", "onlyUndefeated">>
  /\ Len(Filtered) = 2
  /\ HP(Filtered[1]) = 0
  /\ HP(Filtered[2]) = getHPTotal

\* the single opposing party of c is entirely defeated
OpponentDefeated(c) ==
  /\ Len(parties) = 2
  /\ defeated(parties[3 - c[1]])

\* C13: when the filtered set of the chosen character action is empty, the
\* resolution yields no targets without consulting the chooser and the
\* iteration ends in a retry: same actor, same labels, no action
\* notification, no invocation, nothing of the game changed.  Scope enemy
\* with filter onlyUndefeated is such a case when the single opposing party is
\* entirely defeated.
C13_NoEligibleTargets ==
  /\ [][ ( /\ pc = "resolve"
           /\ chosen' \in Range(visibleActions)
           /\ filtered(parties, actor, scope(chosen'), filter(chosen')) = <<>> )
         => ( /\ targets' = <<>>
              /\ ~asked'
              /\ ~notified'
              /\ retry'
              /\ pc' = "resolve"
              /\ actor' = actor
              /\ Labels' = Labels
              /\ UNCHANGED game ) ]_vars
  /\ [](\A c \in Characters :
          OpponentDefeated(c) =>
            /\ resolveWith(parties, c, "enemy", "onlyUndefeated") = {<<>>}
            /\ ~consults(parties, c, "enemy", "onlyUndefeated"))

C13_Witness ==
  /\ pc = "resolve"
  /\ chosen = "Skill/Heal"
  /\ filtered(parties, actor, "ally", "onlyUnhealthy") = <<>>
  /\ retry
  /\ ~asked
  /\ Len(membersOf(parties, actor[1], 1)) = 2

\* C14: scopes self, party, enemies and everyone return the whole non-empty
\* filtered set without consulting the chooser; scopes ally and enemy consult
\* the chooser on a non-empty filtered set and return its answer, one
\* character of the filtered set or no selection, and no selection sets retry
C14_WholeOrChosen ==
  (pc = "targeted" /\ Filtered # <<>>) =>
    /\ descriptor[1] \in {"self", "party", "enemies", "everyone"} =>
         /\ targets = Filtered
         /\ ~asked
         /\ ~retry
    /\ descriptor[1] \in {"ally", "enemy"} =>
         /\ asked
         /\ targets \in chooser(actor, Filtered)
         /\ \/ targets = <<>>
            \/ Len(targets) = 1 /\ targets[1] \in Range(Filtered)
         /\ retry <=> targets = <<>>

C14_Witness ==
  /\ pc = "targeted"
  /\ descriptor[1] = "enemy"
  /\ Len(Filtered) = 2
  /\ asked
  /\ targets = <<>>
  /\ retry

\* C15: an action of scope self resolves, for every filter, to exactly the
\* invoking character when the actor satisfies the filter, and to nothing,
\* which sets retry, when it does not
C15_Self ==
  (pc = "targeted" /\ descriptor[1] = "self") =>
    /\ ~asked
    /\ Keeps(actor, descriptor[2]) => (targets = <<actor>> /\ ~retry)
    /\ ~Keeps(actor, descriptor[2]) => (targets = <<>> /\ retry)

C15_Witness ==
  /\ pc = "targeted"
  /\ descriptor = <<"self", "onlyUnhealthy">>
  /\ HP(actor) = getHPTotal
  /\ targets = <<>>
  /\ retry

----------------------------------------------------------------------------
(* The resolution loop *)

\* the last iteration chose a character action and found targets for it
\* that the actor cannot pay for
Unaffordable ==
  /\ pc = "resolve"
  /\ chosen' \in Range(visibleActions)
  /\ targets' # <<>>
  /\ Char(parties, actor).mp < cost(chosen')

\* C16: when the actor cannot afford the chosen character action, no
\* attribute of any character changes and the iteration ends in a retry: the
\* same actor is offered the menu again and the turn does not end
C16_RejectedRetries ==
  [][ Unaffordable =>
        /\ parties' = parties
        /\ retry'
        /\ pc' = "resolve"
        /\ actor' = actor ]_vars

\* the part of C16 the code keeps: a rejected action changes no attribute
C16_RejectedNoMutation ==
  [][ Unaffordable => parties' = parties ]_vars

\* the step is an iteration of the resolution loop that the code ends in a
\* retry: Cancel, Quit/No, Inspect, or a character action without targets
\* (none eligible, or the target choice cancelled)
RetryIteration ==
  /\ pc = "resolve"
  /\ \/ chosen' \in {"Cancel", "Quit/No", "Inspect"}
     \/ chosen' \in Range(visibleActions) /\ targets' = <<>>

\* C17: an iteration of the resolution loop that ends in a retry changes no
\* character attribute, party, inventory or the exit flag, and the next
\* iteration offers the same labels to the same actor; the state after any
\* number of such iterations differs from the one before only in the locals
\* of the iteration
C17_RetryChangesNothing ==
  [][ RetryIteration =>
        /\ retry'
        /\ pc' = "resolve"
        /\ parties' = parties
        /\ willExit' = willExit
        /\ nParties' = nParties
        /\ actor' = actor
        /\ Labels' = Labels
        /\ UNCHANGED <<game, derived, allowCharacterActions, offered, phase, handler,
                       nDefeat>> ]_vars

C17_Witness ==
  /\ pc = "resolve"
  /\ retry
  /\ chosen = "Inspect"
  /\ phase = "combat"
  /\ Len(filteredCandidates(parties)) > 1

\* C18: a chosen menu action's handler decides the retry flag, which the
\* loop resets before every query, and the loop repeats exactly while it is
\* set: Quit/No sets it and changes nothing else, Quit/Yes sets the exit flag,
\* clears retry and ends the resolution, Fight leaves it cleared
C18_MenuActionRetry ==
  [][ (pc = "resolve" /\ chosen' \in offered) =>
        /\ pc' = "resolve" <=> retry'
        /\ pc' # "resolve" => pc' = "run"
        /\ actor' = actor
        /\ chosen' = "Quit/No" => (retry' /\ UNCHANGED game)
        /\ chosen' = "Quit/Yes" =>
             (willExit' /\ ~retry' /\ pc' = "run" /\ parties' = parties)
        /\ chosen' = "Fight" => ~retry' ]_vars

C18_Witness ==
  /\ pc = "run"
  /\ chosen = "Quit/Yes"
  /\ willExit
  /\ ~retry
  /\ phase = "combat"

\* the acting character belongs to another party than party 0
ActorIsAI == actor[1] # 1

\* C19: the menu the simple rule set composes offers Quit/Yes, Quit/No and
\* Inspect exactly when the actor is not AI-controlled and Fight exactly when
\* state() is menu; an AI-controlled actor in combat is offered its visible
\* character actions and nothing else
C19_ComposedMenu ==
  (pc = "resolve" /\ derived) =>
    /\ \A l \in {"Quit/Yes", "Quit/No", "Inspect"} : l \in offered <=> ~ActorIsAI
    /\ "Fight" \in offered <=> State = "menu"
    /\ (ActorIsAI /\ State = "combat") => Labels = <<"Attack", "Skill/Heal", "Pass">>

C19_Witness ==
  /\ pc = "resolve"
  /\ derived
  /\ ActorIsAI
  /\ State = "combat"
  /\ offered = {}

\* C20: choosing Fight sets the configured party count to 2 and appends one
\* generated party to the single player party, which is unchanged; the
\* resolution ends without retry and the next state() is combat
C20_Fight ==
  [][ (pc = "resolve" /\ chosen' = "Fight") =>
        /\ State = "menu"
        /\ nParties' = 2
        /\ Len(parties) = 1
        /\ Len(parties') = 2
        /\ parties'[1] = parties[1]
        /\ ~retry'
        /\ pc' = "run"
        /\ state(willExit', parties') = "combat" ]_vars

C20_Witness ==
  /\ pc = "run"
  /\ chosen = "Fight"
  /\ fights = 1
  /\ Len(parties) = 2
  /\ Len(parties[1].members) = 2
  /\ State = "combat"

----------------------------------------------------------------------------
(* Construction, party generation and the phases of run *)

\* the game as its constructor leaves it: run() has dispatched nothing yet
Constructed == phase = "none" /\ pc = "run"

\* C21: a game constructed with the default party count of one has exactly
\* one party and a clear exit flag, so that its state() is menu
C21_Constructed ==
  (Constructed /\ nParties = 1) =>
     /\ Len(parties) = 1
     /\ ~willExit
     /\ State = "menu"

\* the rule set's game right after its construction
C21_Witness ==
  /\ Constructed
  /\ derived
  /\ nParties = 1
  /\ Len(parties) = 1
  /\ State = "menu"

----------------------------------------------------------------------------
(* terminal::base on its own: log(), action(), json() and load() called on *)
(* the interaction surface of a constructed game                           *)

\* largest number of entries logged
MaxLog == 3

\* JSON values: arrays, strings, objects with named fields, and null
array(items) == [type |-> "array", items |-> items]

text(s) == [type |-> "string", value |-> s]

object(fields) == [type |-> "object", fields |-> fields]

isArray(v) == v.type = "array"

\* json(key) of a constant JSON value: the field, null where there is none
get(d, key) ==
  IF d.type = "object" /\ key \in DOMAIN d.fields THEN d.fields[key] ELSE null

\* terminal::base::json
json(l) == object([log |-> array(l)])

\* load that assigns the log field whatever it is
loadUnchecked(l, d) == IF isArray(get(d, "log")) THEN get(d, "log").items ELSE <<>>

\* terminal::base::load: the logbook after load(d)
load(l, d) == IF isArray(get(d, "log")) THEN get(d, "log").items ELSE l

\* descriptions logged, and the target lists recorded with an action
Texts == {"OFF WITH THEIR HEADS!"}

Targeted == { << <<2, 1>> >>, << <<2, 1>>, <<2, 2>> >> }

\* documents whose log field is no array
NotArrays ==
  { null, object([log |-> null]), object([log |-> text("log")]),
    object([log |-> object([log |-> array(<<>>)])]), object([other |-> array(<<>>)]) }

\* documents written by another run
Foreign == { json(<<>>), json(<<string("Quit")>>) }

InitLog ==
  /\ derived = TRUE
  /\ nParties = 1
  /\ parties \in generateParties(<<>>, nParties, 0, {0})
  /\ made = nParties
  /\ willExit = FALSE
  /\ pc = "constructed"
  /\ order = <<>>
  /\ actor = None
  /\ allowCharacterActions = FALSE
  /\ offered = {}
  /\ retry = FALSE
  /\ chosen = ""
  /\ descriptor = <<>>
  /\ targets = <<>>
  /\ asked = FALSE
  /\ notified = FALSE
  /\ phase = "none"
  /\ handler = "none"
  /\ nDefeat = 0
  /\ xp = 0
  /\ fights = 0
  /\ heals = 0
  /\ logbook = <<>>
  /\ document = null
  /\ frames = <<>>
  /\ selection = 0
  /\ answer = <<>>
  /\ settled

\* what the operations of the logbook leave alone
kept == <<game, derived, locals, phase, handler, nDefeat, frames, selection, answer, animation>>

\* log(std::string)
Log ==
  /\ Len(logbook) < MaxLog
  /\ \E s \in Texts : logbook' = log(logbook, s)
  /\ pc' = "logged"
  /\ UNCHANGED <<kept, document>>

\* action(game, description, source, targets), which returns log(game, ...)
Action ==
  /\ Len(logbook) < MaxLog
  /\ \E ts \in Targeted : logbook' = Append(logbook, record("Attack", <<1, 1>>, ts))
  /\ pc' = "logged"
  /\ UNCHANGED <<kept, document>>

\* json()
Json ==
  /\ document' = json(logbook)
  /\ pc' = "saved"
  /\ UNCHANGED <<kept, logbook>>

\* load(d), of the document last written or of another one
Load ==
  /\ \E d \in {document} \cup NotArrays \cup Foreign :
       /\ document' = d
       /\ logbook' = load(logbook, d)
  /\ pc' = "loaded"
  /\ UNCHANGED kept

NextLog == Log \/ Action \/ Json \/ Load

SpecLog == InitLog /\ [][NextLog]_vars

----------------------------------------------------------------------------
(* The logbook *)

\* C22: loading what json() returned yields the logbook that was serialized,
\* entry by entry and in the same order, whatever the logbook held before
\* the load; load() of a document whose log field is no array leaves the
\* logbook as it is
C22_RoundTrip ==
  /\ \A l \in {<<>>, <<string("Quit")>>, logbook} : load(l, json(logbook)) = logbook
  /\ \A d \in NotArrays : load(logbook, d) = logbook
  /\ (pc = "loaded" /\ isArray(get(document, "log"))) => logbook = get(document, "log").items

\* a logbook holding a string and a structured record was loaded from its
\* own serialization
C22_Witness ==
  /\ pc = "loaded"
  /\ document = json(logbook)
  /\ \E i, j \in 1..Len(logbook) :
       /\ "string" \in DOMAIN logbook[i]
       /\ "action" \in DOMAIN logbook[j]

----------------------------------------------------------------------------
(* Healing *)

----------------------------------------------------------------------------
(* terminal::base::query for a player's character: the label menu and the  *)
(* single-target chooser, one key press per step                           *)

\* io.size()[1], the number of lines of the terminal
Height == 24

\* a label as the sequence of its names between the slashes
segments(l) ==
  CASE l = "Skill/Heal" -> <<"Skill", "Heal">>
    [] l = "Quit/Yes" -> <<"Quit", "Yes">>
    [] l = "Quit/No" -> <<"Quit", "No">>
    [] OTHER -> <<l>>

split(ls) == [i \in 1..Len(ls) |-> segments(ls[i])]

\* the label lists resolve() composes for a player, and one of a rule set
\* that nests its skills two levels deep
Menus ==
  { split(labels(allow, actions(d, FALSE, ps, <<1, 1>>))) :
      allow \in BOOLEAN, d \in BOOLEAN, ps \in {parties, <<parties[1]>>} }
  \cup { << <<"Attack">>, <<"Skill", "Heal", "One">>, <<"Skill", "Heal", "All">>,
            <<"Skill", "Revive">>, <<"Pass">> >> }

\* list: the first names of the labels, each once, in order of appearance
RECURSIVE list(_, _)
list(pList, seen) ==
  IF pList = <<>> THEN seen
  ELSE list(Tail(pList),
            IF Head(Head(pList)) \in Range(seen) THEN seen ELSE Append(seen, Head(Head(pList))))

\* map[l]: what follows the first slash in the labels that start with l
map(pList, l) ==
  LET under == SelectSeq(pList, LAMBDA la : Len(la) > 1 /\ Head(la) = l)
  IN [i \in 1..Len(under) |-> Tail(under[i])]

\* getLine
getLine(ps, c) == (c[2] - 1) + (IF c[1] = 1 THEN Height - Len(ps[1].members) ELSE 0)

\* the orders std::sort can leave the candidates in
sorted(ps, cs) ==
  { q \in [1..Len(cs) -> Range(cs)] :
      /\ \A i, j \in 1..Len(cs) : i < j => q[i] # q[j]
      /\ \A i, j \in 1..Len(cs) : i < j => ~(getLine(ps, q[j]) < getLine(ps, q[i])) }

\* the innermost call and the entries it shows
top == frames[Len(frames)]

shown == IF "pList" \in DOMAIN top THEN list(top.pList, <<>>) ELSE top.candidates

\* a selection that is left where the keys put it
unclamped(s, n) == s

\* the two tests after io.read
clamped(s, n) ==
  LET below == IF s >= n THEN n - 1 ELSE s
  IN IF below < 0 THEN 0 ELSE below

InitQuery ==
  /\ derived = TRUE
  /\ nParties \in 1..MaxParties
  /\ parties \in setups(nParties, {getHPTotal}, {getMPTotal})
  /\ made = nParties
  /\ willExit = FALSE
  /\ pc = "ask"
  /\ order = <<>>
  /\ actor = <<1, 1>>
  /\ allowCharacterActions = FALSE
  /\ offered = {}
  /\ retry = FALSE
  /\ chosen = ""
  /\ descriptor = <<>>
  /\ targets = <<>>
  /\ asked = FALSE
  /\ notified = FALSE
  /\ phase = "none"
  /\ handler = "none"
  /\ nDefeat = 0
  /\ xp = 0
  /\ fights = 0
  /\ heals = 0
  /\ logbook = <<>>
  /\ document = null
  /\ frames = <<>>
  /\ selection = 0
  /\ answer = <<>>
  /\ settled

\* what query() leaves alone
queried == <<game, derived, locals, phase, handler, nDefeat, logbook, document, animation>>

\* query(game, source, pList, indent, carry) is entered from resolve()
QueryLabels ==
  /\ pc = "ask"
  /\ \E pList \in Menus : frames' = << [pList |-> pList, carry |-> <<>>] >>
  /\ selection' = 0
  /\ pc' = "query"
  /\ UNCHANGED <<queried, answer>>

\* query(game, source, candidates, indent) is entered from resolve(c, s)
QueryTargets ==
  /\ pc = "ask"
  /\ \E sc \in {"ally", "enemy"} :
       LET cs == filtered(parties, actor, sc, "none")
       IN /\ cs # <<>>
          /\ IF Len(cs) = 1
             THEN /\ frames' = << [candidates |-> cs] >>
                  /\ answer' = cs
                  /\ pc' = "answered"
             ELSE /\ \E q \in sorted(parties, cs) : frames' = << [candidates |-> q] >>
                  /\ answer' = <<>>
                  /\ pc' = "query"
  /\ selection' = 0
  /\ UNCHANGED queried

\* 'A': up
KeyUp ==
  /\ pc = "query"
  /\ selection' = clamped(selection - 1, Len(shown))
  /\ UNCHANGED <<queried, pc, frames, answer>>

\* 'B': down
KeyDown ==
  /\ pc = "query"
  /\ selection' = clamped(selection + 1, Len(shown))
  /\ UNCHANGED <<queried, pc, frames, answer>>

\* a cancel that is handed on by every enclosing call
cancelAll ==
  /\ answer' = <<"Cancel">>
  /\ frames' = <<frames[1]>>
  /\ pc' = "answered"
  /\ UNCHANGED selection

\* didCancel in a label menu: "Cancel" is returned; the call that opened a
\* sub-menu answers it with query(game, source, pList, indent, carry)
cancel ==
  IF Len(frames) > 1
  THEN /\ frames' = SubSeq(frames, 1, Len(frames) - 1)
       /\ selection' = 0
       /\ UNCHANGED <<pc, answer>>
  ELSE /\ answer' = <<"Cancel">>
       /\ pc' = "answered"
       /\ UNCHANGED <<frames, selection>>

\* 'D': cancel
KeyCancel ==
  /\ pc = "query"
  /\ IF "pList" \in DOMAIN top
     THEN cancel
     ELSE /\ answer' = <<>>
          /\ pc' = "answered"
          /\ UNCHANGED <<frames, selection>>
  /\ UNCHANGED queried

\* 'C' or a line feed: select
KeySelect ==
  /\ pc = "query"
  /\ IF "pList" \in DOMAIN top
     THEN LET sele == shown[selection + 1]
              sub == map(top.pList, sele)
          IN IF Len(sub) > 0
             THEN /\ frames' = Append(frames, [pList |-> sub, carry |-> Append(top.carry, sele)])
                  /\ selection' = 0
                  /\ UNCHANGED <<pc, answer>>
             ELSE /\ answer' = Append(top.carry, sele)
                  /\ frames' = <<frames[1]>>
                  /\ pc' = "answered"
                  /\ UNCHANGED selection
     ELSE /\ answer' = <<top.candidates[selection + 1]>>
          /\ pc' = "answered"
          /\ UNCHANGED <<frames, selection>>
  /\ UNCHANGED queried

\* the caller goes on with the answer
QueryReturned ==
  /\ pc = "answered"
  /\ pc' = "ask"
  /\ frames' = <<>>
  /\ selection' = 0
  /\ answer' = <<>>
  /\ UNCHANGED queried

NextQuery ==
  \/ QueryLabels
  \/ QueryTargets
  \/ KeyUp
  \/ KeyDown
  \/ KeyCancel
  \/ KeySelect
  \/ QueryReturned

SpecQuery == InitQuery /\ [][NextQuery]_vars

----------------------------------------------------------------------------
(* The queries of the interaction surface *)

\* the label menu is open / has answered
InLabels == frames # <<>> /\ "pList" \in DOMAIN frames[1]

\* C24: the label query answers "Cancel" or the full name of one of the
\* labels it was given; a cancel inside a sub-menu closes that sub-menu only
\* and presents the enclosing level again, so "Cancel" is answered only to
\* a cancel at the top level
C24_LabelQuery ==
  [][ (pc = "query" /\ InLabels) =>
        /\ pc' = "answered" =>
             \/ answer' = <<"Cancel">> /\ Len(frames) = 1
             \/ \E i \in 1..Len(frames[1].pList) : answer' = frames[1].pList[i]
        /\ Len(frames') < Len(frames) =>
             \/ pc' = "answered"
             \/ /\ frames' = SubSeq(frames, 1, Len(frames) - 1)
                /\ selection' = 0
                /\ answer' = <<>>
                /\ pc' = "query" ]_vars

\* a label two sub-menus deep was selected and is answered with its full name
C24_Witness ==
  /\ pc = "answered"
  /\ InLabels
  /\ answer = <<"Skill", "Heal", "All">>
  /\ \E i \in 1..Len(frames[1].pList) : answer = frames[1].pList[i]

\* the target chooser is open / has answered
InTargets == frames # <<>> /\ "candidates" \in DOMAIN frames[1]

\* C28: for a player's character the single-target chooser answers nothing
\* (on cancel) or exactly one target out of the candidates it was given; the
\* selection stays inside the candidates' range after every key press; a
\* single candidate is answered at once, without a prompt to cancel
C28_TargetChooser ==
  InTargets =>
    LET cs == frames[1].candidates
    IN /\ pc = "answered" =>
            \/ answer = <<>> /\ Len(cs) > 1
            \/ Len(answer) = 1 /\ \E i \in 1..Len(cs) : answer[1] = cs[i]
       /\ pc = "query" => selection >= 0 /\ selection < Len(cs)
       /\ Len(cs) = 1 => pc = "answered" /\ answer = cs
       /\ Range(cs) \in { Range(filtered(parties, actor, sc, "none")) : sc \in {"ally", "enemy"} }

\* the selection was moved down to the last of several candidates, which
\* was then selected
C28_Witness ==
  /\ InTargets
  /\ pc = "answered"
  /\ Len(frames[1].candidates) > 1
  /\ selection = Len(frames[1].candidates) - 1
  /\ answer = <<frames[1].candidates[selection + 1]>>

----------------------------------------------------------------------------
(* generateParties called on its own, after attribute["parties"] was set   *)

InitGenerate ==
  /\ derived = FALSE
  /\ nParties \in 0..MaxParties
  /\ parties = <<>>
  /\ made = 0
  /\ willExit = FALSE
  /\ pc = "configured"
  /\ order = <<>>
  /\ actor = None
  /\ allowCharacterActions = FALSE
  /\ offered = {}
  /\ retry = FALSE
  /\ chosen = ""
  /\ descriptor = <<>>
  /\ targets = <<>>
  /\ asked = FALSE
  /\ notified = FALSE
  /\ phase = "none"
  /\ handler = "none"
  /\ nDefeat = 0
  /\ xp = 0
  /\ fights = 0
  /\ heals = 0
  /\ logbook = <<>>
  /\ document = null
  /\ frames = <<>>
  /\ selection = 0
  /\ answer = <<>>
  /\ settled

\* attribute["parties"] = n, as the constructor and fight() do
Configure ==
  /\ pc = "generated"
  /\ nParties' \in 0..MaxParties
  /\ pc' = "configured"
  /\ UNCHANGED <<parties, willExit, made, fights, heals, xp, order, derived, locals, phase,
                 handler, nDefeat, logbook, surface>>

\* generateParties()
Generate ==
  /\ pc = "configured"
  /\ parties' \in { ps \in generateParties(parties, nParties, made, GenXP) :
                      Len(everyone(ps, 1)) <= MaxChars }
  /\ made' = made + Len(parties') - Len(parties)
  /\ pc' = "generated"
  /\ UNCHANGED <<willExit, nParties, fights, heals, xp, order, derived, locals, phase,
                 handler, nDefeat, logbook, surface>>

NextGenerate == Configure \/ Generate

SpecGenerate == InitGenerate /\ [][NextGenerate]_vars

----------------------------------------------------------------------------
(* Party generation *)

\* C25: when generateParties returns there are at least as many parties as
\* configured; max(0, configured - previous) parties were appended at the
\* end, and the parties that were there keep their index and contents
C25_GenerateParties ==
  [][ pc' = "generated" =>
        /\ Len(parties') >= nParties
        /\ Len(parties') = Len(parties) + Max(0, nParties - Len(parties))
        /\ SubSeq(parties', 1, Len(parties)) = parties ]_vars

\* generateParties returned with more parties than configured: the ones
\* that were there are all kept
C25_Witness ==
  /\ pc = "generated"
  /\ nParties > 0
  /\ Len(parties) > nParties

----------------------------------------------------------------------------
(* The log of a match *)

\* the step is an iteration of the resolution loop that commits a character
\* action: a character action was chosen and its targets are confirmed
Commits ==
  /\ pc = "resolve"
  /\ chosen' \in Range(visibleActions)
  /\ targets' # <<>>

\* C26: interact.action, and the structured record it writes, happens exactly
\* once for each committed character action, for the action, actor and
\* targets that were confirmed; a selection that ends in a retry, a menu
\* action and the handlers of run write no record
C26_ActionNotified ==
  [][ /\ Commits =>
           /\ notified'
           /\ targets' \in resolveTargets(parties, actor, chosen')
           /\ records(logbook') = records(logbook) + 1
           /\ Len(logbook') > Len(logbook)
           /\ logbook'[Len(logbook) + 1] = record(chosen', actor, targets')
      /\ ~Commits =>
           /\ records(logbook') = records(logbook)
           /\ pc = "resolve" => ~notified' ]_vars

\* an Attack was committed and its record is in the log
C26_Witness ==
  /\ pc = "run"
  /\ chosen = "Attack"
  /\ notified
  /\ targets # <<>>
  /\ Len(logbook) > 1
  /\ logbook[Len(logbook) - 1] = record("Attack", actor, targets)

\* the entries a step appends to the logbook
Added == SubSeq(logbook', Len(logbook) + 1, Len(logbook'))

\* the step ends an iteration of run that dispatched a handler: resolve()
\* returns to doMenu or doCombat, or doVictory or doDefeat is run
EndsIteration ==
  \/ pc = "resolve" /\ pc' = "run"
  \/ pc = "run" /\ phase' \in {"victory", "defeat"}

\* C27: during play the logbook only grows at its end; every menu, combat,
\* victory or defeat iteration of run appends exactly one string, the result
\* of its handler, and the record of a committed action comes before the
\* string of the same iteration
C27_AppendOnly ==
  [][ /\ Len(logbook') >= Len(logbook)
      /\ SubSeq(logbook', 1, Len(logbook)) = logbook
      /\ EndsIteration =>
           Added = IF Commits
                   THEN <<record(chosen', actor, targets'), string(handler')>>
                   ELSE <<string(handler')>>
      /\ ~EndsIteration => Added = <<>> ]_vars

\* a combat iteration logged its action and then its result, and the
\* victory iteration after it logged one string
C27_Witness ==
  /\ pc = "run"
  /\ phase = "victory"
  /\ Len(logbook) >= 3
  /\ "action" \in DOMAIN logbook[Len(logbook) - 2]
  /\ logbook[Len(logbook) - 1] = string("doCombat")
  /\ logbook[Len(logbook)] = string("doVictory")

----------------------------------------------------------------------------
(* The cost of Skill/Heal *)

\* the step commits a Skill/Heal whose declared cost the actor can pay
Heals ==
  /\ Commits
  /\ chosen' = "Skill/Heal"
  /\ Char(parties, actor).mp >= cost("Skill/Heal")

\* C29: a successful Skill/Heal costs the invoking character its declared
\* 2 MP, once; the effect takes no MP from a target, and every target is
\* healed whatever its own MP/Current is
C29_CostOnInvoker ==
  [][ Heals =>
        /\ Char(parties', actor).mp = Char(parties, actor).mp - cost("Skill/Heal")
        /\ \A i \in 1..Len(targets') :
             LET t == targets'[i]
             IN /\ t # actor => Char(parties', t).mp = Char(parties, t).mp
                /\ Char(parties', t).hp > Char(parties, t).hp ]_vars

----------------------------------------------------------------------------
(* The phases of run *)

\* the phases one iteration of run can be followed by in the next one
Follows ==
  { <<"none", "menu">>,
    <<"menu", "menu">>, <<"menu", "combat">>, <<"menu", "exit">>,
    <<"combat", "combat">>, <<"combat", "victory">>, <<"combat", "defeat">>,
    <<"combat", "exit">>,
    <<"victory", "menu">> }

\* C30: under the simple rule set the phases of consecutive iterations of
\* run follow menu -> menu, combat or exit; combat -> combat, victory, defeat
\* or exit; victory -> menu; after defeat and after exit there is no further
\* iteration
C30_Phases ==
  [][ (derived /\ pc = "run") =>
        /\ <<phase, phase'>> \in Follows
        /\ phase' \in {"defeat", "exit"} => pc' = "done" ]_vars

\* after a victory the rule set is back in its menu
C30_Witness ==
  /\ derived
  /\ phase = "menu"
  /\ pc = "resolve"
  /\ logbook # <<>>
  /\ logbook[Len(logbook)] = string("doVictory")

----------------------------------------------------------------------------
(* The actor of an iteration *)

\* C31: whenever run dispatches doMenu or doCombat some character is able to
\* act: turnOrder() returns no empty sequence, and nextCharacter() takes the
\* first element of a sequence that has one
C31_SomeoneAble ==
  /\ (pc = "run" /\ State \in {"menu", "combat"}) =>
        /\ \E c \in Characters : able(Char(parties, c))
        /\ <<>> \notin turnOrder(parties)
        /\ None \notin nextCharacter(parties)
  /\ (pc = "resolve" /\ handler \in {"doMenu", "doCombat"}) =>
        /\ actor \in Characters
        /\ able(Char(parties, actor))

\* doCombat was dispatched in a match with a dead character, and an able
\* character is the actor
C31_Witness ==
  /\ pc = "resolve"
  /\ handler = "doCombat"
  /\ actor \in Characters
  /\ able(Char(parties, actor))
  /\ \E c \in Characters : ~alive(Char(parties, c))

----------------------------------------------------------------------------
(* The parties of a match *)

\* C32: under the simple rule set there are one or two parties at every
\* iteration of run, doVictory is called with at least two parties, and
\* party 0 is the player party the game was constructed with throughout
C32_OneOrTwoParties ==
  /\ [](derived =>
          /\ Len(parties) \in {1, 2}
          /\ parties[1].id = 1)
  /\ [][ (derived /\ pc = "run" /\ handler' = "doVictory") =>
           /\ Len(parties) >= 2
           /\ Len(parties') = Len(parties) - 1
           /\ parties'[1].id = parties[1].id ]_vars

\* the rule set's doVictory has run on two parties and left the player party
C32_Witness ==
  /\ derived
  /\ pc = "run"
  /\ handler = "doVictory"
  /\ fights = 1
  /\ Len(parties) = 1
  /\ parties[1].id = 1

----------------------------------------------------------------------------
(* The menu phase *)

\* C33: doMenu offers menu handlers only and invokes no character action:
\* while a menu iteration runs, the parties that are there keep every
\* attribute of every character
C33_MenuKeepsAttributes ==
  /\ []((pc = "resolve" /\ handler = "doMenu") =>
          /\ ~allowCharacterActions
          /\ Range(Labels) \cap Range(visibleActions) = {}
          /\ Range(Labels) = offered)
  /\ [][ ((pc = "run" /\ handler' = "doMenu") \/ (pc = "resolve" /\ handler = "doMenu")) =>
           /\ pc = "resolve" => chosen' \in offered \cup {"Cancel"}
           /\ ~notified'
           /\ Len(parties') >= Len(parties)
           /\ SubSeq(parties', 1, Len(parties)) = parties ]_vars

\* a menu handler ran in the menu that follows a fight, on a party with a
\* character below its HP/Total
C33_Witness ==
  /\ pc = "resolve"
  /\ handler = "doMenu"
  /\ chosen = "Inspect"
  /\ retry
  /\ fights = 1
  /\ \E c \in Characters : Char(parties, c).hp < getHPTotal

----------------------------------------------------------------------------
(* The exit flag *)

\* C34: the exit flag changes only when Quit/Yes is chosen, which sets it;
\* Quit/Yes is offered only to a character of party 0, so the turn of an
\* AI-controlled character leaves the flag as it is
C34_ExitByQuitOnly ==
  /\ []((pc = "resolve" /\ "Quit/Yes" \in offered) => ~ActorIsAI)
  /\ [][ /\ willExit' # willExit =>
              /\ willExit'
              /\ pc = "resolve"
              /\ chosen' = "Quit/Yes"
              /\ "Quit/Yes" \in offered
              /\ ~ActorIsAI
         /\ (pc = "resolve" /\ ActorIsAI) => willExit' = willExit ]_vars

\* an AI-controlled character has acted, and later a character of party 0
\* chose Quit/Yes
C34_Witness ==
  /\ pc = "run"
  /\ willExit
  /\ chosen = "Quit/Yes"
  /\ ~ActorIsAI
  /\ \E i \in 1..Len(logbook) :
       /\ "action" \in DOMAIN logbook[i]
       /\ logbook[i].source[1] > 1

----------------------------------------------------------------------------
(* Termination of the resolution loop *)

\* C35: in combat every able character has a character action with eligible
\* targets: Pass on itself, resolved without the chooser, and Attack on the
\* members of an undefeated enemy party; an iteration of the resolution loop
\* that picks Pass, or any action for which targets are confirmed, ends the
\* loop
C35_SomeActionResolves ==
  /\ [](State = "combat" =>
          \A c \in Characters :
            able(Char(parties, c)) =>
              /\ resolveTargets(parties, c, "Pass") = {<<c>>}
              /\ filtered(parties, c, scope("Attack"), filter("Attack")) # <<>>)
  /\ [][ (pc = "resolve" /\ handler = "doCombat" /\ chosen' \in Range(visibleActions)) =>
           /\ chosen' = "Pass" => targets' = <<actor>>
           /\ targets' # <<>> => (pc' = "run" /\ ~retry') ]_vars

\* resolve returned on Pass for a character that had nobody to heal
C35_Witness ==
  /\ pc = "run"
  /\ handler = "doCombat"
  /\ chosen = "Pass"
  /\ targets = <<actor>>
  /\ ~retry
  /\ filtered(parties, actor, scope("Skill/Heal"), filter("Skill/Heal")) = <<>>

----------------------------------------------------------------------------
(* The refresher thread and the animators *)

\* animator::selector and highlight are built without a ttl, animator::flash,
\* glow and text with one
Kinds == {"selector", "flash"}

\* the process was ended by a fault of the refresher thread
crashed == threads.refresher = <<"run", "crashed">>

\* the state when the member initialisers of terminal::base reach
\* refresherThread: members are initialised in the order of their
\* declaration, so alive, active and activeMutex are not constructed yet
InitAnimator ==
  /\ derived = TRUE
  /\ nParties = 1
  /\ parties = <<>>
  /\ willExit = FALSE
  /\ made = 0
  /\ pc = "constructed"
  /\ order = <<>>
  /\ actor = None
  /\ allowCharacterActions = FALSE
  /\ offered = {}
  /\ retry = FALSE
  /\ chosen = ""
  /\ descriptor = <<>>
  /\ targets = <<>>
  /\ asked = FALSE
  /\ notified = FALSE
  /\ phase = "none"
  /\ handler = "none"
  /\ nDefeat = 0
  /\ xp = 0
  /\ fights = 0
  /\ heals = 0
  /\ logbook = <<>>
  /\ document = null
  /\ frames = <<>>
  /\ selection = 0
  /\ answer = <<>>
  /\ aliveFlag = "uninitialized"
  /\ active = <<>>
  /\ built = {}
  /\ activeMutex = "free"
  /\ animators = [i \in 1..MaxAnimators |-> unallocated]
  /\ threads = [game |-> "refresherThread", refresher |-> <<"run", "unstarted">>,
                anim |-> 0, sel |-> 0]

\* everything but the animation
still == <<game, derived, pc, locals, phase, handler, nDefeat, logbook, document, frames,
           selection, answer>>

\* refresherThread(refresher::run, std::ref(*this)): the thread starts
StartRefresher ==
  /\ threads.game = "refresherThread"
  /\ threads' = [threads EXCEPT !.game = "alive", !.refresher = <<"run", "loop">>]
  /\ UNCHANGED <<still, aliveFlag, active, built, activeMutex, animators>>

\* alive(true)
InitAlive ==
  /\ ~crashed
  /\ threads.game = "alive"
  /\ aliveFlag' = "true"
  /\ built' = built \cup {"alive"}
  /\ threads' = [threads EXCEPT !.game = "active"]
  /\ UNCHANGED <<still, active, activeMutex, animators>>

\* the default constructor of the list active
InitActive ==
  /\ ~crashed
  /\ threads.game = "active"
  /\ active' = <<>>
  /\ built' = built \cup {"active"}
  /\ threads' = [threads EXCEPT !.game = "activeMutex"]
  /\ UNCHANGED <<still, aliveFlag, activeMutex, animators>>

\* the default constructor of activeMutex, which leaves it unlocked, and
\* the body of the constructor
InitMutex ==
  /\ ~crashed
  /\ threads.game = "activeMutex"
  /\ activeMutex' = "free"
  /\ built' = built \cup {"activeMutex"}
  /\ threads' = [threads EXCEPT !.game = "idle"]
  /\ UNCHANGED <<still, aliveFlag, active, animators>>

\* new selector(...) of a query, new flash(...) of action(): the argument
\* of addAnimator; the query keeps the pointer sel
New(kind) ==
  /\ ~crashed
  /\ threads.game = "idle"
  /\ \E i \in 1..MaxAnimators :
       /\ animators[i] = unallocated
       /\ \A j \in 1..(i - 1) : animators[j] # unallocated
       /\ animators' = [animators EXCEPT ![i] = [kind |-> kind, state |-> "valid", deletes |-> 0, line |-> 0]]
       /\ threads' = [threads EXCEPT !.game = "lock", !.anim = i,
                                     !.sel = IF kind = "selector" THEN i ELSE 0]
  /\ UNCHANGED <<still, aliveFlag, active, built, activeMutex>>

\* addAnimator: std::lock_guard<std::mutex> lock(activeMutex)
AddLock ==
  /\ ~crashed
  /\ threads.game = "lock"
  /\ activeMutex = "free"
  /\ activeMutex' = "game"
  /\ threads' = [threads EXCEPT !.game = "push"]
  /\ UNCHANGED <<still, aliveFlag, active, built, animators>>

\* addAnimator: active.push_back(anim)
AddPush ==
  /\ ~crashed
  /\ threads.game = "push"
  /\ active' = Append(active, threads.anim)
  /\ threads' = [threads EXCEPT !.game = "unlock"]
  /\ UNCHANGED <<still, aliveFlag, built, activeMutex, animators>>

\* addAnimator: the lock_guard goes out of scope
AddUnlock ==
  /\ ~crashed
  /\ threads.game = "unlock"
  /\ activeMutex' = "free"
  /\ threads' = [threads EXCEPT !.game = IF threads.sel = 0 THEN "idle" ELSE "query",
                                !.anim = 0]
  /\ UNCHANGED <<still, aliveFlag, active, built, animators>>

\* query: sel->line = ..., written in the loop without the mutex
Touch ==
  /\ ~crashed
  /\ threads.game = "query"
  /\ animators' = [animators EXCEPT ![threads.sel].line = 1 - animators[threads.sel].line]
  /\ UNCHANGED <<still, aliveFlag, active, built, activeMutex, threads>>

\* query: sel->expire(), the last use of sel; valid() is false from then on
Expire ==
  /\ ~crashed
  /\ threads.game = "query"
  /\ animators' = [animators EXCEPT ![threads.sel].state = "invalid"]
  /\ threads' = [threads EXCEPT !.game = "idle", !.sel = 0]
  /\ UNCHANGED <<still, aliveFlag, active, built, activeMutex>>

\* the clock passes validUntil of an animator built with a ttl
Timeout(i) ==
  /\ ~crashed
  /\ animators[i].kind = "flash"
  /\ animators[i].state = "valid"
  /\ animators' = [animators EXCEPT ![i].state = "invalid"]
  /\ UNCHANGED <<still, aliveFlag, active, built, activeMutex, threads>>

\* ~base: alive = false
Stop ==
  /\ ~crashed
  /\ threads.game = "idle"
  /\ aliveFlag' = "false"
  /\ threads' = [threads EXCEPT !.game = "join"]
  /\ UNCHANGED <<still, active, built, activeMutex, animators>>

\* ~base: refresherThread.join()
Join ==
  /\ threads.game = "join"
  /\ threads.refresher = <<"run", "finished">>
  /\ threads' = [threads EXCEPT !.game = "delete"]
  /\ UNCHANGED <<still, aliveFlag, active, built, activeMutex, animators>>

\* delete p
delete(as, p) == [as EXCEPT ![p].state = "deleted", ![p].deletes = as[p].deletes + 1]

\* for (auto &a : active) delete a
RECURSIVE deleteAll(_, _)
deleteAll(as, l) ==
  IF l = <<>> THEN as ELSE deleteAll(delete(as, Head(l)), Tail(l))

\* ~base: the loop deleting what is left in active
DeleteRest ==
  /\ threads.game = "delete"
  /\ animators' = deleteAll(animators, active)
  /\ threads' = [threads EXCEPT !.game = "destroyed"]
  /\ UNCHANGED <<still, aliveFlag, active, built, activeMutex>>

\* run: while (self.base.alive); a read of alive before alive(true) has run
\* yields either value
Loop ==
  /\ threads.refresher = <<"run", "loop">>
  /\ \E v \in (IF "alive" \in built THEN {aliveFlag} ELSE {"true", "false"}) :
       threads' = [threads EXCEPT !.refresher =
                     IF v = "true" THEN <<"refresh", "lock">> ELSE <<"last", "lock">>]
  /\ UNCHANGED <<still, aliveFlag, active, built, activeMutex, animators>>

\* refresh, flush, sleepTime: std::lock_guard<std::mutex> lock(base.activeMutex);
\* locking a mutex that is not constructed yet succeeds, blocks or faults
Lock ==
  /\ threads.refresher[2] = "lock"
  /\ IF "activeMutex" \in built
       THEN /\ activeMutex = "free"
            /\ activeMutex' = "refresher"
            /\ threads' = [threads EXCEPT !.refresher[2] = "body"]
       ELSE \/ /\ activeMutex' = "refresher"
               /\ threads' = [threads EXCEPT !.refresher[2] = "body"]
            \/ /\ threads' = [threads EXCEPT !.refresher = <<"run", "blocked">>]
               /\ UNCHANGED activeMutex
            \/ /\ threads' = [threads EXCEPT !.refresher = <<"run", "crashed">>]
               /\ UNCHANGED activeMutex
  /\ UNCHANGED <<still, aliveFlag, active, built, animators>>

\* the first animator of the list that is not valid(), 0 if all are
invalid(l, as) ==
  LET is == { i \in 1..Len(l) : as[l[i]].state # "valid" }
  IN IF is = {} THEN 0 ELSE CHOOSE i \in is : \A j \in is : i <= j

\* refresher::refresh under the lock: one invalid animator is erased from
\* the list and deleted, or all are valid and drawn; iterating a list that
\* is not constructed yet finds nothing or faults
Refresh ==
  /\ ~crashed
  /\ threads.refresher = <<"refresh", "body">>
  /\ IF "active" \notin built
       THEN /\ \E r \in {<<"refresh", "unlock">>, <<"run", "crashed">>} :
                  threads' = [threads EXCEPT !.refresher = r]
            /\ UNCHANGED <<active, animators>>
       ELSE LET i == invalid(active, animators)
            IN IF i = 0
                 THEN /\ threads' = [threads EXCEPT !.refresher = <<"refresh", "unlock">>]
                      /\ UNCHANGED <<active, animators>>
                 ELSE /\ active' = SubSeq(active, 1, i - 1) \o SubSeq(active, i + 1, Len(active))
                      /\ animators' = delete(animators, active[i])
                      /\ UNCHANGED threads
  /\ UNCHANGED <<still, aliveFlag, built, activeMutex>>

\* refresher::flush under the lock: postProcess reads the list
Flush ==
  /\ ~crashed
  /\ threads.refresher \in {<<"flush", "body">>, <<"last", "body">>}
  /\ \E r \in {<<threads.refresher[1], "unlock">>} \cup
              (IF "active" \in built THEN {} ELSE {<<"run", "crashed">>}) :
       threads' = [threads EXCEPT !.refresher = r]
  /\ UNCHANGED <<still, aliveFlag, active, built, activeMutex, animators>>

\* refresher::sleepTime under the lock: reads the list
SleepTime ==
  /\ ~crashed
  /\ threads.refresher = <<"sleepTime", "body">>
  /\ \E r \in {<<"sleepTime", "unlock">>} \cup
              (IF "active" \in built THEN {} ELSE {<<"run", "crashed">>}) :
       threads' = [threads EXCEPT !.refresher = r]
  /\ UNCHANGED <<still, aliveFlag, active, built, activeMutex, animators>>

\* the statement of refresher::run that follows a section
following(section) ==
  CASE section = "refresh" -> <<"flush", "lock">>
    [] section = "flush" -> <<"sleepTime", "lock">>
    [] section = "sleepTime" -> <<"run", "loop">>
    [] section = "last" -> <<"run", "finished">>

\* the lock_guard of refresh, flush or sleepTime goes out of scope; the
\* unlock of a mutex that was constructed anew since the lock releases it
\* or leaves it alone
Unlock ==
  /\ ~crashed
  /\ threads.refresher[2] = "unlock"
  /\ activeMutex' \in {"free"} \cup (IF activeMutex = "refresher" THEN {} ELSE {activeMutex})
  /\ threads' = [threads EXCEPT !.refresher = following(threads.refresher[1])]
  /\ UNCHANGED <<still, aliveFlag, active, built, animators>>

NextAnimator ==
  \/ StartRefresher \/ InitAlive \/ InitActive \/ InitMutex
  \/ \E kind \in Kinds : New(kind)
  \/ AddLock \/ AddPush \/ AddUnlock \/ Touch \/ Expire
  \/ \E i \in 1..MaxAnimators : Timeout(i)
  \/ Stop \/ Join \/ DeleteRest
  \/ Loop \/ Lock \/ Refresh \/ Flush \/ SleepTime \/ Unlock

SpecAnimator == InitAnimator /\ [][NextAnimator]_vars

----------------------------------------------------------------------------
(* Animators under the mutex *)

\* a thread that reads or modifies the list holds activeMutex; the
\* destructor's loop runs after the refresher thread was joined
Guarded ==
  /\ threads.refresher[2] = "body" => activeMutex = "refresher"
  /\ threads.game = "push" => activeMutex = "game"
  /\ threads.game = "delete" => threads.refresher = <<"run", "finished">>

\* no animator is deleted twice, and after the destructor every animator
\* that was created is deleted
DeletedOnce ==
  /\ \A i \in 1..MaxAnimators : animators[i].deletes <= 1
  /\ threads.game = "destroyed" =>
       \A i \in 1..MaxAnimators :
         animators[i] # unallocated => animators[i].deletes = 1

\* what the refresher thread deletes was not valid
DeletesInvalid ==
  \A i \in 1..MaxAnimators :
    (animators'[i].deletes > animators[i].deletes /\ threads.game # "delete")
      => animators[i].state = "invalid"

\* what the game thread writes to or expires is valid: not expired, not deleted
TouchesValid ==
  \A i \in 1..MaxAnimators :
    (threads.game = "query" /\ threads.sel = i /\ animators'[i] # animators[i])
      => animators[i].state = "valid"

\* C36: with the game thread and the refresher thread interleaved in any
\* order the animator list is read and modified only while activeMutex is
\* held or after the refresher thread was joined, the refresher deletes only
\* animators that are no longer valid, the game thread does not touch an
\* animator after expire(), and every animator is deleted exactly once
C36_AnimatorsUnderMutex ==
  /\ [](Guarded /\ DeletedOnce)
  /\ [][DeletesInvalid /\ TouchesValid]_vars

\* the three parts of C36 that do not depend on the mutex
C36_AnimatorsDeletedOnce ==
  /\ []DeletedOnce
  /\ [][DeletesInvalid /\ TouchesValid]_vars

\* an animator was deleted by the refresher thread, another by the destructor
C36_Deleted ==
  /\ threads.game = "destroyed"
  /\ active # <<>>
  /\ \E i \in 1..MaxAnimators : animators[i].deletes = 1 /\ \A k \in 1..Len(active) : active[k] # i

\* the game thread appends to the list while the refresher thread reads it
C36_BothInside ==
  /\ threads.game = "push"
  /\ threads.refresher[2] = "body"

====
